---- MODULE Spec2Model ----
(***************************************************************************)
(* Model of the authentication / session-token subsystem of go-tasker:     *)
(* the handlers CreateUser, LoginUser, GetUserData and GetAccessToken of   *)
(* package router, the User and Claims tables of package models, and the   *)
(* token, cookie, validation and middleware helpers of package util.       *)
(***************************************************************************)
EXTENDS Integers, Sequences, FiniteSets, TLC

\* ------------------------------------------------------------------ bounds
\* The clock runs over 1..MaxTime (Unix seconds, always positive).
MaxTime == 4
\* At most MaxClaims rows are ever inserted into the claims table.
MaxClaims == 2

\* ------------------------------------------------- token lifetimes (util)
AccessTTL == 1
RefreshTTL == 2

\* ------------------------------------------------------- request payloads
\* Strings a client may send as email, username or identity.  Emails are
\* the strings of email format, Names those of username format; "" is the
\* empty string.
Emails == {"a@x", "b@x"}
Names == {"al", "bo"}
EmailInputs == Emails \cup {""}
NameInputs == Names \cup {"", "a@x"}
IdentityInputs == Emails \cup Names \cup {""}
\* Plaintext passwords are one-element tuples, bcrypt hashes three-element
\* tuples, so that a stored password field can hold either.
StrongPasswords == {<<"Secr3t!1">>, <<"Passw0rd">>}
PasswordInputs == StrongPasswords \cup {<<"weak">>}
Salts == {"s1"}
Procs == {1, 2}

VARIABLES
    users,     \* table users: sequence of rows, row i has primary key i
    claims,    \* table claims: sequence of rows, row i has primary key i
    now,       \* time.Now().Unix()
    submitted, \* submitted[i]: the password row i of users was signed up with
    held,      \* the refresh tokens handed out to clients so far
    last,      \* the request being answered: its inputs and the response
    reqs,      \* in-flight CreateUser requests (concurrent handling)
    accepted   \* the refresh tokens GetAccessToken has accepted in requests
               \* answered before the current one

vars == <<users, claims, now, submitted, held, last, reqs, accepted>>

\* ------------------------------------------------------------------ helpers
Range(s) == {s[i] : i \in 1..Len(s)}

\* strconv.Itoa
Itoa(n) == ToString(n)

\* A cookie value / token string.  form "none" is the empty string (absent
\* cookie), "segments" a string that does not split into three segments,
\* "undecodable" three segments that do not decode, "jwt" a well-formed
\* token with its claims; sig tells whether the signature verifies under
\* jwtKey.
NoToken == [form |-> "none", iss |-> "", iat |-> 0, exp |-> 0, sig |-> "bad"]
SegmentsToken == [NoToken EXCEPT !.form = "segments"]
UndecodableToken == [NoToken EXCEPT !.form = "undecodable"]
MalformedTokens == {NoToken, SegmentsToken, UndecodableToken}

SignedToken(iss, iat, exp) ==
    [form |-> "jwt", iss |-> iss, iat |-> iat, exp |-> exp, sig |-> "ok"]

\* The same header and claims with a signature that does not verify.
Tamper(tok) == [tok EXCEPT !.sig = "bad"]

\* the zero value of models.Claims (jwt.StandardClaims)
ZeroClaims == [iss |-> "", iat |-> 0, exp |-> 0]

\* ------------------------------------------------------ jwt-go (library)
\* jwt.StandardClaims.Valid at time t: exp and iat are checked when set.
ClaimsValid(c, t) ==
    /\ (c.exp = 0 \/ t <= c.exp)
    /\ (c.iat = 0 \/ t >= c.iat)

\* ParseWithClaims verifying the signature only: the claims are not
\* validated.
ParseWithClaimsSignatureOnly(tok, t) ==
    LET c == IF tok.form = "jwt"
             THEN [iss |-> tok.iss, iat |-> tok.iat, exp |-> tok.exp]
             ELSE ZeroClaims
    IN  [tokenNil |-> tok.form \in {"none", "segments"},
         claims |-> c,
         valid |-> tok.form = "jwt" /\ tok.sig = "ok"]

\* jwt.ParseWithClaims(tokenString, claims, keyFunc) at time t.  The claims
\* are decoded before anything is verified; the token object is nil when
\* the string does not split into three segments; Valid needs both the
\* signature and the claims to validate.
ParseWithClaims(tok, t) ==
    LET c == IF tok.form = "jwt"
             THEN [iss |-> tok.iss, iat |-> tok.iat, exp |-> tok.exp]
             ELSE ZeroClaims
    IN  [tokenNil |-> tok.form \in {"none", "segments"},
         claims |-> c,
         valid |-> tok.form = "jwt" /\ tok.sig = "ok" /\ ClaimsValid(c, t)]

\* ------------------------------------------------------ bcrypt (library)
\* GenerateFromPassword returning its input.
GenerateFromPasswordPlain(password, salt) == password

\* bcrypt.GenerateFromPassword: a digest naming the algorithm, the salt
\* drawn, and the password it was made from.
GenerateFromPassword(password, salt) == <<"$2a$", salt, password[1]>>

CompareHashAndPassword(hash, password) ==
    Len(hash) = 3 /\ hash[1] = "$2a$" /\ hash[3] = password[1]

\* ------------------------------------------------------------ package util
\* ValidateRegister: structural validation of email, username and password.
ValidateRegister(email, username, password) ==
    LET e == email \notin Emails
        u == username \notin Names
        p == password \notin StrongPasswords
    IN  [Err |-> e \/ u \/ p, Email |-> e, Username |-> u, Password |-> p]

\* GenerateAccessClaims(issuer): an access token issued at time t.
GenerateAccessClaims(iss, t) == SignedToken(iss, t, t + AccessTTL)

\* The refresh token issued at time t and the claims row mirroring it.
GenerateRefreshClaims(iss, t) == SignedToken(iss, t, t + RefreshTTL)

ClaimRow(cs, tok) ==
    [ID |-> Len(cs) + 1, iss |-> tok.iss, iat |-> tok.iat, exp |-> tok.exp]

\* GenerateTokens(issuer): both tokens, the refresh claims persisted.
GenerateTokens(cs, iss, t) ==
    LET r == GenerateRefreshClaims(iss, t)
    IN  [access |-> GenerateAccessClaims(iss, t),
         refresh |-> r,
         claims |-> Append(cs, ClaimRow(cs, r))]

\* SecureAuth: the middleware verifies signature and expiry of the
\* access_token cookie and passes the issuer on as Locals("id").
SecureAuth(tok, t) ==
    LET p == ParseWithClaims(tok, t)
    IN  [pass |-> (~p.tokenNil) /\ p.valid, id |-> p.claims.iss]

\* ------------------------------------------------------------------- store
\* The rows of a table having column col equal to val.  A column the table
\* does not have matches no row (the query fails, RowsAffected is 0).
RowsWhere(tbl, col, val) ==
    {r \in Range(tbl) : col \in DOMAIN r /\ r[col] = val}

\* gorm First: the matching row of least primary key.
First(rows) == CHOOSE r \in rows : \A q \in rows : r.id <= q.id

\* gorm struct condition Where(&models.User{Email: e}): a zero-valued field
\* adds no condition.
UsersByEmail(us, e) ==
    IF e = "" THEN Range(us) ELSE RowsWhere(us, "email", e)

UsersByUsername(us, n) ==
    IF n = "" THEN Range(us) ELSE RowsWhere(us, "username", n)

\* --------------------------------------------------------------- responses
\* The record kept of the last request: its inputs, the time it was served
\* at and what the handler answered.
Idle ==
    [op |-> "idle", t |-> 0, t2 |-> 0,
     email |-> "", username |-> "", identity |-> "", password |-> <<"">>,
     fault |-> "none", cookie |-> NoToken,
     status |-> 0, body |-> "none",
     errEmail |-> FALSE, errUsername |-> FALSE, errPassword |-> FALSE,
     access |-> NoToken, refresh |-> NoToken,
     setAccess |-> FALSE, setRefresh |-> FALSE, cleared |-> FALSE,
     created |-> 0, ran |-> FALSE, localsId |-> "", userId |-> 0,
     valid |-> FALSE, path |-> "none"]

\* c.Status(fiber.StatusOK).JSON({access_token, refresh_token}) after both
\* cookies are set
TokensResponse(base, tk) ==
    [base EXCEPT !.status = 200, !.body = "tokens",
                 !.access = tk.access, !.refresh = tk.refresh,
                 !.setAccess = TRUE, !.setRefresh = TRUE]

\* c.JSON(fiber.Map{"error": true, ...}): fiber answers 200 unless a status
\* is set.
ErrorResponse(base, kind) == [base EXCEPT !.status = 200, !.body = kind]

\* A panic in the handler: no response is written.
Panic(base) == [base EXCEPT !.status = 0, !.body = "panic"]

\* ------------------------------------------------------------- CreateUser
\* UniqueErrors giving up at the first collision: the username is queried
\* only when the email is free.
UniqueErrorsFirstOnly(us, email, username) ==
    LET e == UsersByEmail(us, email) # {}
        u == (~e) /\ UsersByUsername(us, username) # {}
    IN  [Err |-> e \/ u, Email |-> e, Username |-> u]

\* The two uniqueness queries: each sets its own field of errors.
UniqueErrors(us, email, username) ==
    LET e == UsersByEmail(us, email) # {}
        u == UsersByUsername(us, username) # {}
    IN  [Err |-> e \/ u, Email |-> e, Username |-> u]

\* DBCreateUser on a table without the unique indexes.
DBCreateUserNoIndex(us, email, username, hash) ==
    [ok |-> TRUE,
     users |-> Append(us, [id |-> Len(us) + 1, email |-> email,
                           username |-> username, password |-> hash])]

\* db.DB.Create(&u): the unique indexes on email and username reject a row
\* that repeats either; otherwise the row is inserted under the next id.
DBCreateUser(us, email, username, hash) ==
    IF \E r \in Range(us) : r.email = email \/ r.username = username
    THEN [ok |-> FALSE, users |-> us]
    ELSE [ok |-> TRUE,
          users |-> Append(us, [id |-> Len(us) + 1, email |-> email,
                                username |-> username, password |-> hash])]

\* CreateUserResult without the check of bcrypt's error: when hashing fails
\* the handler goes on with the password as submitted.
CreateUserResultHashErrorIgnored(us, cs, t, in) ==
    LET base == [Idle EXCEPT !.op = "signup", !.t = t, !.t2 = t,
                             !.email = in.email, !.username = in.username,
                             !.password = in.password, !.fault = in.fault]
        same == [users |-> us, claims |-> cs]
        verrs == ValidateRegister(in.email, in.username, in.password)
        uerrs == UniqueErrors(us, in.email, in.username)
        hash == IF in.fault = "hash"
                THEN in.password
                ELSE GenerateFromPassword(in.password, in.salt)
        ins == DBCreateUser(us, in.email, in.username, hash)
        uid == Len(ins.users)
        tk == GenerateTokens(cs, Itoa(uid), t)
    IN  IF ~in.parseOk
        THEN same @@ [last |-> ErrorResponse(base, "input")]
        ELSE IF verrs.Err
        THEN same @@ [last |-> [ErrorResponse(base, "errors") EXCEPT
                                  !.errEmail = verrs.Email,
                                  !.errUsername = verrs.Username,
                                  !.errPassword = verrs.Password]]
        ELSE IF uerrs.Err
        THEN same @@ [last |-> [ErrorResponse(base, "errors") EXCEPT
                                  !.errEmail = uerrs.Email,
                                  !.errUsername = uerrs.Username]]
        ELSE IF ~ins.ok
        THEN same @@ [last |-> ErrorResponse(base, "general")]
        ELSE IF in.fault = "tokens"
        THEN [users |-> ins.users, claims |-> cs,
              last |-> [Panic(base) EXCEPT !.created = uid]]
        ELSE [users |-> ins.users, claims |-> tk.claims,
              last |-> [TokensResponse(base, tk) EXCEPT !.created = uid]]

\* The whole handler, served at time t.  in.parseOk: the body parses.
CreateUserResult(us, cs, t, in) ==
    LET base == [Idle EXCEPT !.op = "signup", !.t = t, !.t2 = t,
                             !.email = in.email, !.username = in.username,
                             !.password = in.password, !.fault = in.fault]
        same == [users |-> us, claims |-> cs]
        verrs == ValidateRegister(in.email, in.username, in.password)
        uerrs == UniqueErrors(us, in.email, in.username)
        hash == GenerateFromPassword(in.password, in.salt)
        ins == DBCreateUser(us, in.email, in.username, hash)
        uid == Len(ins.users)
        tk == GenerateTokens(cs, Itoa(uid), t)
    IN  IF ~in.parseOk
        THEN same @@ [last |-> ErrorResponse(base, "input")]
        ELSE IF verrs.Err
        THEN same @@ [last |-> [ErrorResponse(base, "errors") EXCEPT
                                  !.errEmail = verrs.Email,
                                  !.errUsername = verrs.Username,
                                  !.errPassword = verrs.Password]]
        ELSE IF uerrs.Err
        THEN same @@ [last |-> [ErrorResponse(base, "errors") EXCEPT
                                  !.errEmail = uerrs.Email,
                                  !.errUsername = uerrs.Username]]
        ELSE IF in.fault = "hash"
        THEN same @@ [last |-> Panic(base)]
        ELSE IF ~ins.ok
        THEN same @@ [last |-> ErrorResponse(base, "general")]
        ELSE IF in.fault = "tokens"
        THEN [users |-> ins.users, claims |-> cs,
              last |-> [Panic(base) EXCEPT !.created = uid]]
        ELSE [users |-> ins.users, claims |-> tk.claims,
              last |-> [TokensResponse(base, tk) EXCEPT !.created = uid]]

\* -------------------------------------------------------------- LoginUser
\* UsersByIdentity without the Or: the identity is matched as email only.
UsersByIdentityEmailOnly(us, identity) == UsersByEmail(us, identity)

\* Where(&User{Email: identity}).Or(&User{Username: identity})
UsersByIdentity(us, identity) ==
    UsersByEmail(us, identity) \cup UsersByUsername(us, identity)

\* LoginUserResult issuing the tokens before the password is compared: the
\* refresh claims are persisted also when the comparison then fails.
LoginUserResultTokensFirst(us, cs, t, in) ==
    LET base == [Idle EXCEPT !.op = "login", !.t = t, !.t2 = t,
                             !.identity = in.identity,
                             !.password = in.password, !.fault = in.fault]
        same == [users |-> us, claims |-> cs]
        rows == UsersByIdentity(us, in.identity)
        u == First(rows)
        tk == GenerateTokens(cs, Itoa(u.id), t)
    IN  IF ~in.parseOk
        THEN same @@ [last |-> ErrorResponse(base, "input")]
        ELSE IF rows = {}
        THEN same @@ [last |-> ErrorResponse(base, "invalid")]
        ELSE IF in.fault = "tokens"
        THEN same @@ [last |-> Panic(base)]
        ELSE IF ~CompareHashAndPassword(u.password, in.password)
        THEN [users |-> us, claims |-> tk.claims,
              last |-> ErrorResponse(base, "invalid")]
        ELSE [users |-> us, claims |-> tk.claims,
              last |-> TokensResponse(base, tk)]

\* The whole handler, served at time t.
LoginUserResult(us, cs, t, in) ==
    LET base == [Idle EXCEPT !.op = "login", !.t = t, !.t2 = t,
                             !.identity = in.identity,
                             !.password = in.password, !.fault = in.fault]
        same == [users |-> us, claims |-> cs]
        rows == UsersByIdentity(us, in.identity)
        u == First(rows)
        tk == GenerateTokens(cs, Itoa(u.id), t)
    IN  IF ~in.parseOk
        THEN same @@ [last |-> ErrorResponse(base, "input")]
        ELSE IF rows = {}
        THEN same @@ [last |-> ErrorResponse(base, "invalid")]
        ELSE IF ~CompareHashAndPassword(u.password, in.password)
        THEN same @@ [last |-> ErrorResponse(base, "invalid")]
        ELSE IF in.fault = "tokens"
        THEN same @@ [last |-> Panic(base)]
        ELSE [users |-> us, claims |-> tk.claims,
              last |-> TokensResponse(base, tk)]

\* ---------------------------------------------------------- GetAccessToken
\* FindClaim with the two time arguments in the wrong order.
FindClaimSwapped(cs, c) ==
    {r \in Range(cs) : r.exp = c.iat /\ r.iat = c.exp /\ r.iss = c.iss}

\* FindClaim as a struct condition, Where(&models.Claims{...}): a
\* zero-valued field adds no condition.
FindClaimStructCondition(cs, c) ==
    {r \in Range(cs) : /\ (c.exp = 0 \/ r.exp = c.exp)
                        /\ (c.iat = 0 \/ r.iat = c.iat)
                        /\ (c.iss = "" \/ r.iss = c.iss)}

\* The claims rows with exactly the parsed expires_at, issued_at and issuer.
FindClaim(cs, c) ==
    {r \in Range(cs) : r.exp = c.exp /\ r.iat = c.iat /\ r.iss = c.iss}

\* RefreshDecision without the branch for a token that is not valid.
RefreshDecisionNoValidCheck(p, rows, t2) ==
    IF rows = {} THEN "norecord"
    ELSE IF p.tokenNil THEN "panic"
    ELSE IF p.claims.exp < t2 THEN "expired" ELSE "ok"

\* The return the handler takes, from the parse result p, the rows found
\* and the clock t2 read by the expiry comparison: "norecord" (line 149),
\* "expired" (line 156), "invalid" (line 161) or "ok".  Reading token.Valid
\* of a nil token panics.
RefreshDecision(p, rows, t2) ==
    IF rows = {} THEN "norecord"
    ELSE IF p.tokenNil THEN "panic"
    ELSE IF p.valid
         THEN IF p.claims.exp < t2 THEN "expired" ELSE "ok"
         ELSE "invalid"

\* Forbidden leaving the cookies in place when the token is expired.
ForbiddenKeepsExpired(base, d) ==
    [base EXCEPT !.status = 403, !.body = "forbidden",
                 !.cleared = (d # "expired"), !.path = d]

\* c.ClearCookie("access_token", "refresh_token") and
\* c.SendStatus(fiber.StatusForbidden), on the return d.
Forbidden(base, d) ==
    [base EXCEPT !.status = 403, !.body = "forbidden", !.cleared = TRUE,
                 !.path = d]

\* RefreshMint that does not read the clock: the claims are dated from the
\* zero time.
RefreshMintNoClock(cs, iss, t) ==
    [access |-> GenerateAccessClaims(iss, 0), refresh |-> NoToken,
     claims |-> cs]

\* RefreshMint using the refresh token up: the issuer's claims rows are
\* deleted.
RefreshMintConsuming(cs, iss, t) ==
    [access |-> GenerateAccessClaims(iss, t), refresh |-> NoToken,
     claims |-> SelectSeq(cs, LAMBDA r : r.iss # iss)]

\* RefreshMint calling GenerateTokens: the refresh token is rotated.
RefreshMintRotating(cs, iss, t) == GenerateTokens(cs, iss, t)

\* What the success path issues: one access token for the issuer of the
\* refresh claims, no refresh token, no claims row.
RefreshMint(cs, iss, t) ==
    [access |-> GenerateAccessClaims(iss, t), refresh |-> NoToken,
     claims |-> cs]

\* The whole handler: the token is parsed at time t, the expiry comparison
\* and the minting read the clock again at t2 >= t.  valid is what the
\* parse reported as token.Valid, path the return taken.
GetAccessTokenResult(cs, t, t2, cookie) ==
    LET base == [Idle EXCEPT !.op = "refresh", !.t = t, !.t2 = t2,
                             !.cookie = cookie]
        p == ParseWithClaims(cookie, t)
        d == RefreshDecision(p, FindClaim(cs, p.claims), t2)
        tk == RefreshMint(cs, p.claims.iss, t2)
        seen == [base EXCEPT !.valid = p.valid]
    IN  IF d \in {"norecord", "expired", "invalid"}
        THEN [claims |-> cs, last |-> Forbidden(seen, d)]
        ELSE IF d = "panic"
        THEN [claims |-> cs, last |-> Panic(base)]
        ELSE [claims |-> tk.claims,
              last |-> [seen EXCEPT !.status = 200, !.body = "access",
                                    !.path = "ok",
                                    !.access = tk.access,
                                    !.refresh = tk.refresh,
                                    !.setAccess = TRUE,
                                    !.setRefresh = tk.refresh # NoToken]]

\* -------------------------------------------- /private/user (GetUserData)
\* db.DB.Where("uuid = ?", id).First(&u)
GetUserData(us, id) == RowsWhere(us, "uuid", id)

\* The route registered outside the group: no middleware runs before the
\* handler.
PrivateUserResultUnguarded(us, t, cookie) ==
    LET base == [Idle EXCEPT !.op = "private", !.t = t, !.t2 = t,
                             !.cookie = cookie]
        id == ParseWithClaims(cookie, t).claims.iss
        rows == GetUserData(us, id)
    IN  IF rows = {}
        THEN [ErrorResponse(base, "notfound") EXCEPT
                !.ran = TRUE, !.localsId = id]
        ELSE [base EXCEPT !.status = 200, !.body = "user", !.ran = TRUE,
                          !.localsId = id, !.userId = First(rows).id]

\* privUser.Use(util.SecureAuth()); privUser.Get("/user", GetUserData):
\* the handler runs only behind the middleware.
PrivateUserResult(us, t, cookie) ==
    LET base == [Idle EXCEPT !.op = "private", !.t = t, !.t2 = t,
                             !.cookie = cookie]
        mw == SecureAuth(cookie, t)
        rows == GetUserData(us, mw.id)
    IN  IF ~mw.pass
        THEN [base EXCEPT !.status = 401, !.body = "unauthorized"]
        ELSE IF rows = {}
        THEN [ErrorResponse(base, "notfound") EXCEPT
                !.ran = TRUE, !.localsId = mw.id]
        ELSE [base EXCEPT !.status = 200, !.body = "user", !.ran = TRUE,
                          !.localsId = mw.id, !.userId = First(rows).id]

\* ------------------------------------------------------- what clients send
\* The refresh tokens a response hands to the client.
Handed(r) == IF r.refresh = NoToken THEN {} ELSE {r.refresh}

\* Tokens a client can hold: the refresh tokens handed out, and the access
\* tokens issued with them or obtainable since by refreshing them.
KnownTokens ==
    held
    \cup {GenerateAccessClaims(k.iss, t) : k \in held, t \in 1..now}

\* Any cookie value: absent or malformed, a token held, or a held token
\* with its signature broken.
CookieInputs ==
    MalformedTokens \cup KnownTokens \cup {Tamper(k) : k \in KnownTokens}

\* fault: "none", or "hash" (bcrypt returns an error), or "tokens"
\* (GenerateTokens does not return); a fault is drawn only for requests
\* that can get as far as hashing.
SignupInputs ==
    {[parseOk |-> FALSE, email |-> "", username |-> "", password |-> <<"">>,
      salt |-> "s1", fault |-> "none"]}
    \cup [parseOk : {TRUE}, email : EmailInputs, username : NameInputs,
          password : PasswordInputs, salt : Salts, fault : {"none"}]
    \cup [parseOk : {TRUE}, email : Emails, username : Names,
          password : StrongPasswords, salt : Salts,
          fault : {"hash", "tokens"}]

LoginInputs ==
    {[parseOk |-> FALSE, identity |-> "", password |-> <<"">>,
      fault |-> "none"]}
    \cup [parseOk : {TRUE}, identity : IdentityInputs,
          password : PasswordInputs, fault : {"none"}]
    \cup [parseOk : {TRUE}, identity : IdentityInputs,
          password : StrongPasswords, fault : {"tokens"}]

\* ----------------------------------------------------------------- actions
IdleReq ==
    [pc |-> "idle", email |-> "", username |-> "", password |-> <<"">>,
     created |-> 0]

Init ==
    /\ users = <<>>
    /\ claims = <<>>
    /\ now = 1
    /\ submitted = <<>>
    /\ held = {}
    /\ last = Idle
    /\ reqs = [p \in Procs |-> IdleReq]
    /\ accepted = {}

\* POST /signup
Signup ==
    /\ last = Idle
    /\ \E in \in SignupInputs :
        \E r \in {CreateUserResult(users, claims, now, in)} :
            /\ Len(r.claims) <= MaxClaims
            /\ users' = r.users
            /\ submitted' = IF Len(r.users) > Len(users)
                             THEN Append(submitted, in.password)
                             ELSE submitted
            /\ claims' = r.claims
            /\ held' = held \cup Handed(r.last)
            /\ last' = r.last
            /\ UNCHANGED <<now, reqs, accepted>>

\* POST /login
Login ==
    /\ last = Idle
    /\ \E in \in LoginInputs :
        \E r \in {LoginUserResult(users, claims, now, in)} :
            /\ Len(r.claims) <= MaxClaims
            /\ claims' = r.claims
            /\ held' = held \cup Handed(r.last)
            /\ last' = r.last
            /\ UNCHANGED <<users, submitted, now, reqs, accepted>>

\* GET /token
GetAccessToken ==
    /\ last = Idle
    /\ \E cookie \in CookieInputs, t2 \in {now, now + 1} :
        /\ t2 <= MaxTime
        /\ \E r \in {GetAccessTokenResult(claims, now, t2, cookie)} :
            /\ Len(r.claims) <= MaxClaims
            /\ claims' = r.claims
            /\ held' = held \cup Handed(r.last)
            /\ last' = r.last
            /\ now' = t2
            /\ UNCHANGED <<users, submitted, reqs, accepted>>

\* GET /private/user
PrivateUser ==
    /\ last = Idle
    /\ \E cookie \in CookieInputs :
        /\ last' = PrivateUserResult(users, now, cookie)
        /\ UNCHANGED <<users, submitted, claims, now, held, reqs,
                   accepted>>

\* The response is sent; the request is over.
Deliver ==
    /\ last # Idle
    /\ last' = Idle
    /\ UNCHANGED <<users, submitted, claims, now, held, reqs,
                   accepted>>

\* A second passes.
Tick ==
    /\ last = Idle
    /\ now < MaxTime
    /\ now' = now + 1
    /\ UNCHANGED <<users, submitted, claims, held, last, reqs, accepted>>

Next == Signup \/ Login \/ GetAccessToken \/ PrivateUser \/ Deliver \/ Tick

Spec == Init /\ [][Next]_vars

\* ------------------------------------------- CreateUser, request-parallel
\* Each request is handled independently; requests meet only in the store.
\* A handler is followed from one store operation to the next: the two
\* uniqueness queries, then Create, then GenerateTokens and the response.
ConcBase(q) ==
    [Idle EXCEPT !.op = "signup", !.t = now, !.t2 = now, !.email = q.email,
                 !.username = q.username, !.password = q.password]

\* The body is parsed and validated, the uniqueness queries run.
ConcCheck(p) ==
    /\ reqs[p].pc = "idle"
    /\ \E e \in Emails, n \in Names, pw \in StrongPasswords :
        LET q == [IdleReq EXCEPT !.email = e, !.username = n,
                                 !.password = pw]
            uerrs == UniqueErrors(users, e, n)
        IN  /\ ~ValidateRegister(e, n, pw).Err
            /\ IF uerrs.Err
               THEN /\ last' = [ErrorResponse(ConcBase(q), "errors") EXCEPT
                                  !.errEmail = uerrs.Email,
                                  !.errUsername = uerrs.Username]
                    /\ UNCHANGED reqs
               ELSE /\ reqs' = [reqs EXCEPT ![p] = [q EXCEPT !.pc = "checked"]]
                    /\ UNCHANGED last
    /\ UNCHANGED <<users, submitted, claims, now, held, accepted>>

\* The password is hashed and the row created.
ConcCreate(p) ==
    /\ reqs[p].pc = "checked"
    /\ \E salt \in Salts :
        LET q == reqs[p]
            ins == DBCreateUser(users, q.email, q.username,
                                GenerateFromPassword(q.password, salt))
        IN  IF ins.ok
            THEN /\ users' = ins.users
                 /\ submitted' = Append(submitted, q.password)
                 /\ reqs' = [reqs EXCEPT ![p] = [q EXCEPT
                                !.pc = "created", !.created = Len(ins.users)]]
                 /\ UNCHANGED last
            ELSE /\ last' = ErrorResponse(ConcBase(q), "general")
                 /\ reqs' = [reqs EXCEPT ![p] = IdleReq]
                 /\ UNCHANGED <<users, submitted>>
    /\ UNCHANGED <<claims, now, held, accepted>>

\* The tokens are issued, the cookies set and the response written.
ConcTokens(p) ==
    /\ reqs[p].pc = "created"
    /\ Len(claims) < MaxClaims
    /\ LET q == reqs[p]
           tk == GenerateTokens(claims, Itoa(q.created), now)
       IN  /\ claims' = tk.claims
           /\ held' = held \cup {tk.refresh}
           /\ last' = [TokensResponse(ConcBase(q), tk) EXCEPT
                         !.created = q.created]
           /\ reqs' = [reqs EXCEPT ![p] = IdleReq]
    /\ UNCHANGED <<users, submitted, now, accepted>>

\* The request is cancelled between two store operations: nothing more of
\* the handler runs.
ConcCancel(p) ==
    /\ reqs[p].pc \in {"checked", "created"}
    /\ last' = [Panic(ConcBase(reqs[p])) EXCEPT !.fault = "cancel",
                                                !.created = reqs[p].created]
    /\ reqs' = [reqs EXCEPT ![p] = IdleReq]
    /\ UNCHANGED <<users, submitted, claims, now, held, accepted>>

NextConc ==
    \E p \in Procs :
        ConcCheck(p) \/ ConcCreate(p) \/ ConcTokens(p) \/ ConcCancel(p)

SpecConc == Init /\ [][NextConc]_vars

\* ------------------------------------------------- sessions over time
\* The same handlers, followed for what becomes of a refresh token once
\* GetAccessToken has accepted it.  The requests are those that can issue or
\* present a token: a signup or login with a password of the accepted
\* strength, and any cookie value.
SessionSignupInputs ==
    [parseOk : {TRUE}, email : Emails, username : Names,
     password : StrongPasswords, salt : Salts, fault : {"none"}]

SessionLoginInputs ==
    [parseOk : {TRUE}, identity : IdentityInputs,
     password : StrongPasswords, fault : {"none"}]

\* The acceptances on record once response r has been sent.
Accept(acc, r) ==
    IF r.op = "refresh" /\ r.body = "access"
    THEN acc \cup {r.cookie}
    ELSE acc

SessionSignup ==
    /\ last = Idle
    /\ \E in \in SessionSignupInputs :
        \E r \in {CreateUserResult(users, claims, now, in)} :
            /\ Len(r.claims) <= MaxClaims
            /\ users' = r.users
            /\ submitted' = IF Len(r.users) > Len(users)
                             THEN Append(submitted, in.password)
                             ELSE submitted
            /\ claims' = r.claims
            /\ held' = held \cup Handed(r.last)
            /\ last' = r.last
            /\ UNCHANGED <<now, reqs, accepted>>

SessionLogin ==
    /\ last = Idle
    /\ \E in \in SessionLoginInputs :
        \E r \in {LoginUserResult(users, claims, now, in)} :
            /\ Len(r.claims) <= MaxClaims
            /\ claims' = r.claims
            /\ held' = held \cup Handed(r.last)
            /\ last' = r.last
            /\ UNCHANGED <<users, submitted, now, reqs, accepted>>

\* The response is sent; an acceptance goes on record.
SessionDeliver ==
    /\ last # Idle
    /\ last' = Idle
    /\ accepted' = Accept(accepted, last)
    /\ UNCHANGED <<users, submitted, claims, now, held, reqs>>

NextSession ==
    SessionSignup \/ SessionLogin \/ GetAccessToken \/ PrivateUser
    \/ SessionDeliver \/ Tick

SpecSession == Init /\ [][NextSession]_vars

\* ------------------------------------------------------------------ claims
\* A claims row carries exactly the (issuer, issuedAt, expiresAt) of tok.
RecordIn(cs, tok) ==
    \E r \in Range(cs) :
        r.iss = tok.iss /\ r.iat = tok.iat /\ r.exp = tok.exp

\* The response carries no token and sets no cookie.
NoTokens(r) ==
    /\ r.access = NoToken
    /\ r.refresh = NoToken
    /\ ~r.setAccess
    /\ ~r.setRefresh

\* C1: GetAccessToken answers Forbidden and issues no access token when no
\* claims row has the token's exact triple, when the token's expiresAt is
\* before the current time, and when its signature does not verify (also
\* when its claims coincide with a row).
C1_RefreshForbidden ==
    (/\ last.op = "refresh"
     /\ \/ ~RecordIn(claims, last.cookie)
        \/ last.cookie.exp < last.t2
        \/ last.cookie.sig # "ok")
    => (last.status = 403 /\ last.body = "forbidden" /\ NoTokens(last))

\* A correctly signed token with a matching row is refused once expired.
C1_Witness ==
    /\ last.op = "refresh"
    /\ last.cookie.sig = "ok"
    /\ RecordIn(claims, last.cookie)
    /\ last.cookie.exp < last.t2
    /\ last.status = 403

\* C2: given a correctly signed, persisted, unexpired refresh token,
\* GetAccessToken returns one new access token for its issuer and sets only
\* the access_token cookie; no refresh token is returned, the refresh_token
\* cookie is neither set nor cleared, and no row of users or claims changes.
C2_RefreshMintsAccessOnly ==
    [][(/\ last'.op = "refresh"
        /\ last'.cookie.form = "jwt"
        /\ last'.cookie.sig = "ok"
        /\ RecordIn(claims, last'.cookie)
        /\ last'.t2 <= last'.cookie.exp)
       => (/\ last'.status = 200
           /\ last'.body = "access"
           /\ last'.access.form = "jwt"
           /\ last'.access.sig = "ok"
           /\ last'.access.iss = last'.cookie.iss
           /\ last'.setAccess
           /\ last'.refresh = NoToken
           /\ ~last'.setRefresh
           /\ ~last'.cleared
           /\ claims' = claims
           /\ users' = users
           /\ held' = held)]_vars

C2_Witness ==
    /\ last.op = "refresh"
    /\ last.body = "access"
    /\ RecordIn(claims, last.cookie)

\* The rows of users other than the one the last request created.
Others == {r \in Range(users) : r.id # last.created}

UnknownIdentity(identity) ==
    \A u \in Range(users) : identity \notin {u.email, u.username}

\* A row of users has the identity, and the password is not the one that
\* user signed up with.
WrongPassword(identity, password) ==
    \E u \in Range(users) :
        identity \in {u.email, u.username} /\ password # submitted[u.id]

\* The generic answer of Login: Invalid Credentials, no token, no cookie.
InvalidCredentials(r) ==
    /\ r.status = 200
    /\ r.body = "invalid"
    /\ NoTokens(r)
    /\ ~r.cleared

\* C4: a Login with a wrong password and a Login with an unknown identity
\* get one and the same response: the generic Invalid Credentials body,
\* the same status, no cookie.
C4_LoginIndistinguishable ==
    (/\ last.op = "login"
     /\ last.body # "input"
     /\ \/ UnknownIdentity(last.identity)
        \/ WrongPassword(last.identity, last.password))
    => InvalidCredentials(last)

\* C5: no two rows of users share an email, and no two share a username,
\* however concurrent signups interleave.
C5_UniqueIdentities ==
    \A i, j \in 1..Len(users) :
        i # j => /\ users[i].email # users[j].email
                 /\ users[i].username # users[j].username

\* Two requests passed the uniqueness queries with the same identity; the
\* Create of the second was rejected.
C5_Witness ==
    /\ last.op = "signup"
    /\ last.body = "general"
    /\ \E r \in Range(users) :
          r.email = last.email \/ r.username = last.username

\* C6: a Signup that does not end with the response carrying both tokens
\* leaves no row of users created by it.
C6_SignupAllOrNothing ==
    (last.op = "signup" /\ last.body # "tokens")
    => ~\E r \in Range(users) : r.id = last.created

\* C7: a Signup whose email and/or username belongs to a registered user
\* flags exactly the colliding fields, both when both collide, and creates
\* no user.
C7_ConflictFlags ==
    LET emailTaken == \E r \in Others : r.email = last.email
        nameTaken == \E r \in Others : r.username = last.username
    IN  (/\ last.op = "signup"
         /\ last.email \in Emails
         /\ last.username \in Names
         /\ last.password \in StrongPasswords
         /\ emailTaken \/ nameTaken)
        => (/\ last.body = "errors"
            /\ last.errEmail = emailTaken
            /\ last.errUsername = nameTaken
            /\ ~last.errPassword
            /\ last.created = 0
            /\ NoTokens(last))

\* The email collides and the username does not.
C7_Witness ==
    /\ last.op = "signup"
    /\ last.body = "errors"
    /\ last.username \in Names
    /\ last.password \in StrongPasswords
    /\ last.errEmail
    /\ ~last.errUsername
    /\ \E r \in Range(users) : r.email = last.email
    /\ \A r \in Range(users) : r.username # last.username

\* C8: every refresh token handed out by Signup or Login has a claims row
\* with exactly its triple from the moment of the response on, and
\* presenting it to GetAccessToken up to its expiresAt yields a new access
\* token.
C8_RefreshTokenPersisted ==
    /\ \A k \in held : RecordIn(claims, k)
    /\ (last.body = "tokens")
       => (last.refresh \in held /\ RecordIn(claims, last.refresh))
    /\ (/\ last.op = "refresh"
        /\ last.cookie \in held
        /\ last.t2 <= last.cookie.exp)
       => (/\ last.status = 200
           /\ last.body = "access"
           /\ last.access.sig = "ok"
           /\ last.access.iss = last.cookie.iss)

\* A handed-out refresh token is presented in its last second and accepted.
C8_Witness ==
    /\ last.op = "refresh"
    /\ last.cookie \in held
    /\ last.t2 = last.cookie.exp
    /\ last.body = "access"

\* C9: GetUserData does not run for a request whose access token is
\* missing, malformed, wrongly signed or expired: the middleware answers
\* Unauthorized; when it runs, Locals("id") is the issuer of a verified,
\* unexpired token.
C9_MiddlewareGuards ==
    (last.op = "private")
    => /\ (\/ last.cookie.form # "jwt"
           \/ last.cookie.sig # "ok"
           \/ last.cookie.exp < last.t)
          => (~last.ran /\ last.status \in {401, 403})
       /\ last.ran
          => (/\ last.cookie.form = "jwt"
              /\ last.cookie.sig = "ok"
              /\ last.t <= last.cookie.exp
              /\ last.localsId = last.cookie.iss)

\* An expired, correctly signed access token is turned away.
C9_Witness ==
    /\ last.op = "private"
    /\ last.cookie.form = "jwt"
    /\ last.cookie.sig = "ok"
    /\ last.cookie.exp < last.t
    /\ ~last.ran
    /\ last.status = 401

\* The expiry of the access token issued together with refresh token tok.
OriginalAccessExp(tok) == GenerateAccessClaims(tok.iss, tok.iat).exp

C11_ForbiddenClearsCookies ==
    (last.op = "refresh")
    => /\ (last.status = 403)
          => (/\ last.path \in {"norecord", "expired", "invalid"}
              /\ last.cleared
              /\ ~last.setAccess
              /\ ~last.setRefresh)
       /\ (\/ ~RecordIn(claims, last.cookie)
           \/ last.cookie.exp < last.t2
           \/ last.cookie.sig # "ok")
          => (last.status = 403 /\ last.cleared)
       /\ (last.body = "access") => ~last.cleared

\* A token that is persisted and correctly signed expires between the parse
\* and the expiry comparison: Forbidden by the comparison, cookies cleared.
C11_Witness ==
    /\ last.op = "refresh"
    /\ last.path = "expired"
    /\ last.status = 403
    /\ last.cleared

C13_RecordsKeptTokensReusable ==
    [][/\ \A i \in 1..Len(claims) :
             i <= Len(claims') /\ claims'[i] = claims[i]
       /\ (/\ last'.op = "refresh"
           /\ last'.cookie \in accepted'
           /\ last'.t2 <= last'.cookie.exp)
          => (/\ last'.status = 200
              /\ last'.body = "access"
              /\ last'.access.sig = "ok"
              /\ last'.access.iss = last'.cookie.iss)]_vars

\* A refresh token accepted in an earlier request is accepted again, in a
\* later second than it was issued in.
C13_Witness ==
    /\ last.op = "refresh"
    /\ last.cookie \in accepted
    /\ last.body = "access"
    /\ last.t2 > last.cookie.iat

\* C14: a Signup answered with validation or conflict errors and a Login
\* answered Invalid Credentials change no row of users or claims, hand out
\* no token and set or clear no cookie.
C14_RejectedRequestsChangeNothing ==
    [][(\/ last'.op = "signup" /\ last'.body = "errors"
        \/ last'.op = "login" /\ last'.body = "invalid")
       => (/\ users' = users
           /\ claims' = claims
           /\ held' = held
           /\ last'.created = 0
           /\ NoTokens(last')
           /\ ~last'.cleared)]_vars

\* A Login with the email of a registered user and a password of accepted
\* strength that is not that user's.
C14_Witness ==
    /\ last.op = "login"
    /\ last.body = "invalid"
    /\ last.password \in StrongPasswords
    /\ \E u \in Range(users) :
          u.email = last.identity /\ submitted[u.id] # last.password

\* C15: a Signup in which the hashing of the password fails is aborted: the
\* handler panics without a response, no row of users or claims is created
\* (so none holding the submitted password), no token is issued and no
\* cookie is set.
C15_HashFailureAborts ==
    [][(/\ last'.op = "signup"
        /\ last'.fault = "hash"
        /\ ~UniqueErrors(users, last'.email, last'.username).Err)
       => (/\ last'.body = "panic"
           /\ users' = users
           /\ claims' = claims
           /\ held' = held
           /\ last'.created = 0
           /\ NoTokens(last')
           /\ \A r \in Range(users') :
                 r.email = last'.email => r.password # last'.password)]_vars

\* The hashing fails for a second signup, with a first user registered.
C15_Witness ==
    /\ last.op = "signup"
    /\ last.fault = "hash"
    /\ last.body = "panic"
    /\ Len(users) = 1

\* C16: whenever GetUserData runs behind the middleware with Locals("id")
\* the stringified id of a row of users, it answers with that row; it
\* answers not-found only when no row of users has that id.
C16_GetUserDataFindsUser ==
    (last.op = "private" /\ last.ran)
    => /\ \A u \in Range(users) :
             (Itoa(u.id) = last.localsId)
             => (last.body = "user" /\ last.userId = u.id)
       /\ (last.body = "notfound")
          => ~\E u \in Range(users) : Itoa(u.id) = last.localsId

\* C17: Login hands out tokens only when the password verifies against the
\* stored hash of a row of users whose email or username is the identity
\* sent, and the tokens are issued for that row's id; the tokens of a
\* Signup are issued for the id of the row it created; the access token of
\* GetAccessToken is issued for the issuer of the refresh token presented.
C17_TokensOnlyForAuthenticatedUser ==
    /\ (last.op = "login" /\ last.body = "tokens")
       => \E u \in Range(users) :
             /\ last.identity \in {u.email, u.username}
             /\ CompareHashAndPassword(u.password, last.password)
             /\ last.access.iss = Itoa(u.id)
             /\ last.refresh.iss = Itoa(u.id)
    /\ (last.op = "signup" /\ last.body = "tokens")
       => \E u \in Range(users) :
             /\ u.id = last.created
             /\ u.email = last.email
             /\ u.username = last.username
             /\ last.access.iss = Itoa(u.id)
             /\ last.refresh.iss = Itoa(u.id)
    /\ (last.op = "refresh" /\ last.body = "access")
       => last.access.iss = last.cookie.iss

\* C18: GetAccessToken never reads token.Valid of a nil token: no row of
\* claims ever has the zero-valued triple, so for every cookie value whose
\* parse yields no token object (absent or empty cookie, wrong number of
\* segments) the handler answers Forbidden at the lookup; it never panics.
C18_NilTokenNeverDereferenced ==
    /\ FindClaim(claims, ZeroClaims) = {}
    /\ (last.op = "refresh")
       => /\ last.body # "panic"
          /\ ParseWithClaims(last.cookie, last.t).tokenNil
             => (/\ last.status = 403
                 /\ last.path = "norecord"
                 /\ NoTokens(last))

\* A string that does not split into three segments is presented while the
\* claims table holds rows.
C18_Witness ==
    /\ last.op = "refresh"
    /\ last.cookie = SegmentsToken
    /\ ParseWithClaims(last.cookie, last.t).tokenNil
    /\ Len(claims) > 0
    /\ last.path = "norecord"

\* C19: in every reachable state the password field of every row of users
\* is a bcrypt digest of the password that row was signed up with (it
\* verifies against that password and against no other) and is never the
\* submitted password itself.
C19_StoredPasswordIsHash ==
    /\ Len(submitted) = Len(users)
    /\ \A i \in 1..Len(users) :
          /\ users[i].password # submitted[i]
          /\ users[i].password \notin PasswordInputs
          /\ \E salt \in Salts :
                users[i].password = GenerateFromPassword(submitted[i], salt)
          /\ \A pw \in PasswordInputs :
                CompareHashAndPassword(users[i].password, pw)
                <=> (pw = submitted[i])

\* Two users are registered, with different passwords.
C19_Witness ==
    /\ Len(users) = 2
    /\ submitted[1] # submitted[2]
    /\ last.op = "signup"
    /\ last.created = 2

====
